---- MODULE Spec2Model ----
(***************************************************************************)
(* Model of the A2A streaming examples: the EventQueue channel, the        *)
(* TaskUpdater lifecycle controller (examples/a2a_utils.py), the           *)
(* AgentExecutor producer (examples/agent_executor.py) and the two SSE     *)
(* bridges (examples/stream_server.py event_generator and                  *)
(* examples/orchestrator_stream_server.py stream_generator).               *)
(*                                                                         *)
(* The specifications share the variables:                                 *)
(*   Spec        any caller driving one TaskUpdater / EventQueue pair      *)
(*               through its public operations, with one consumer;         *)
(*   SpecSetup   the same calls made on the TaskUpdater of a2a_utils.py    *)
(*               and on the one of event_queue_setup.py;                   *)
(*   SpecServer  AgentExecutor.execute as background task drained by       *)
(*               event_generator (FairSpecServer: with fair scheduling);   *)
(*   SpecOrch    OrchestratorAgentExecutor.execute drained by              *)
(*               stream_generator;                                         *)
(*   SpecOrchNewTask  the same with a context that has no current task;    *)
(*   SpecBridges either bridge with a reader that may stop reading;        *)
(*   SpecShared  a terminal call, one put at a time, beside a second       *)
(*               coroutine that enqueues on the same EventQueue;           *)
(*   SpecFail    fail as any caller and as execute's except clause call it;*)
(*   SpecPoll    the is_empty-guarded poll loop run after the producer     *)
(*               has finished (FairSpecPoll: with fair scheduling).        *)
(*                                                                         *)
(* Scheduling is asyncio's: a coroutine runs until it suspends.  A put on  *)
(* the unbounded asyncio.Queue never suspends, so a TaskUpdater call is    *)
(* one atomic step and a task is preempted only where it really waits (a   *)
(* get on an empty queue, asyncio.sleep, a yield to the stream's reader).  *)
(* The "timestamp" field of the events is left out: no operation reads it. *)
(***************************************************************************)
EXTENDS Integers, Sequences, FiniteSets, TLC

VARIABLES
    queue,      \* EventQueue.queue: the items put and not yet got
    enqueued,   \* history: every item passed to EventQueue.enqueue, in call order
    returned,   \* history: every item returned by EventQueue.get, in return order
    updater,    \* the TaskUpdater: task_id, context_id, current_state
    call,       \* the last producer-side call and how it ended
    calls,      \* history: the producer-side calls made, with their arguments
    ncalls,     \* number of producer-side calls made (Spec only)
    exec,       \* the executor task: mode, pc, exception text, channel at the raise
    bridge,     \* the bridge generator's position
    wire,       \* the wire events the bridge has yielded, in order
    setup       \* event_queue_setup.py's TaskUpdater and what it has enqueued (SpecSetup only)

vars == <<queue, enqueued, returned, updater, call, calls, ncalls, exec, bridge, wire, setup>>

(***************************************************************************)
(* Bounds.                                                                 *)
(***************************************************************************)
MaxCalls == 4

\* calls the producer makes before a poll loop starts (SpecPoll)
MaxPollCalls == 2

(***************************************************************************)
(* Python values.                                                          *)
(***************************************************************************)
None == [py |-> "None"]

PyStr(s) == [py |-> "str", s |-> s]

\* bool(x) of an Optional[str]: None and "" are falsy
Truthy(v) == v # None /\ v.s # ""

\* str(x) inside an f-string
Format(v) == IF v = None THEN "None" ELSE v.s

EmptyDict == [py |-> "dict"]

Range(s) == {s[i] : i \in 1..Len(s)}

Last(s) == s[Len(s)]

(***************************************************************************)
(* a2a_utils.TaskState                                                     *)
(***************************************************************************)
TaskState ==
    [PENDING   |-> "pending",
     WORKING   |-> "working",
     COMPLETED |-> "completed",
     FAILED    |-> "failed",
     CANCELLED |-> "cancelled"]

TaskStateMembers == DOMAIN TaskState

TerminalMembers == {"COMPLETED", "FAILED", "CANCELLED"}

TerminalValues == {TaskState[m] : m \in TerminalMembers}

(***************************************************************************)
(* a2a_utils.EventQueue over asyncio.Queue() (maxsize 0: a FIFO that is    *)
(* never full, so put never waits and never raises).                       *)
(***************************************************************************)
\* a put at the head of the queue instead of its tail
enqueue_front(q, event) == <<event>> \o q

\* a queue that is closed by the sentinel: later events are dropped
enqueue_closed(q, event) ==
    IF \E i \in 1..Len(q) : q[i] = [py |-> "None"] THEN q ELSE Append(q, event)

enqueue(q, event) == Append(q, event)

\* a get that returns the newest item instead of the oldest
get_newest(q) == [event |-> Last(q), queue |-> SubSeq(q, 1, Len(q) - 1)]

get(q) == [event |-> Head(q), queue |-> Tail(q)]

is_empty(q) == q = <<>>

RECURSIVE EnqueueAll(_, _)
EnqueueAll(q, events) ==
    IF events = <<>> THEN q
    ELSE EnqueueAll(enqueue(q, Head(events)), Tail(events))

(***************************************************************************)
(* a2a_utils.new_agent_parts_message and the two assignments every caller  *)
(* makes on its result (message["task_id"] = ..., message["context_id"]).  *)
(***************************************************************************)
TextPart(content) == [type |-> "text", content |-> content]

new_agent_parts_message(parts, role) ==
    [type |-> "agent_parts", role |-> role, parts |-> parts]

SetIds(message, task_id, context_id) ==
    [type       |-> message.type,
     role       |-> message.role,
     parts      |-> message.parts,
     task_id    |-> task_id,
     context_id |-> context_id]

(***************************************************************************)
(* a2a_utils.TaskUpdater.  Each operation maps the updater to the updater  *)
(* it leaves and the items it passes to EventQueue.enqueue, in call order. *)
(***************************************************************************)
TaskUpdater(task_id, context_id) ==
    [task_id |-> task_id, context_id |-> context_id, current_state |-> "PENDING"]

Result(u, puts) == [updater |-> u, puts |-> puts, ret |-> "ok"]

\* the call ends in the exception named by error, after the puts made so far
Raises(u, puts, error) == [updater |-> u, puts |-> puts, ret |-> error]

\* update_status whose event carries state.name in place of state.value
update_status_member_name(u, state) ==
    IF state \in TaskStateMembers
    THEN Result([u EXCEPT !.current_state = state],
                << [type       |-> "statusUpdate",
                    task_id    |-> u.task_id,
                    context_id |-> u.context_id,
                    state      |-> state] >>)
    ELSE Raises([u EXCEPT !.current_state = state], <<>>, "AttributeError")

\* update_status without the assignment to self.current_state
update_status_no_assign(u, state) ==
    IF state \in TaskStateMembers
    THEN Result(u,
                << [type       |-> "statusUpdate",
                    task_id    |-> u.task_id,
                    context_id |-> u.context_id,
                    state      |-> TaskState[state]] >>)
    ELSE Raises(u, <<>>, "AttributeError")

\* self.current_state = state comes first; building the event reads
\* state.value, which raises AttributeError when state is no TaskState member
update_status(u, state) ==
    IF state \in TaskStateMembers
    THEN Result([u EXCEPT !.current_state = state],
                << [type       |-> "statusUpdate",
                    task_id    |-> u.task_id,
                    context_id |-> u.context_id,
                    state      |-> TaskState[state]] >>)
    ELSE Raises([u EXCEPT !.current_state = state], <<>>, "AttributeError")

\* the artifact event with artifact_id and content interchanged
add_artifact_update_swapped(u, artifact_id, content, metadata) ==
    Result(u,
           << [type        |-> "artifactUpdate",
               task_id     |-> u.task_id,
               context_id  |-> u.context_id,
               artifact_id |-> content,
               content     |-> artifact_id,
               metadata    |-> IF metadata = None THEN EmptyDict ELSE metadata] >>)

\* add_artifact_update that also marks the task as working
add_artifact_update_marks_working(u, artifact_id, content, metadata) ==
    Result([u EXCEPT !.current_state = "WORKING"],
           << [type        |-> "artifactUpdate",
               task_id     |-> u.task_id,
               context_id  |-> u.context_id,
               artifact_id |-> artifact_id,
               content     |-> content,
               metadata    |-> IF metadata = None THEN EmptyDict ELSE metadata] >>)

add_artifact_update(u, artifact_id, content, metadata) ==
    Result(u,
           << [type        |-> "artifactUpdate",
               task_id     |-> u.task_id,
               context_id  |-> u.context_id,
               artifact_id |-> artifact_id,
               content     |-> content,
               metadata    |-> IF metadata = None THEN EmptyDict ELSE metadata] >>)

\* complete without the end signal
complete_no_sentinel(u) == update_status(u, "COMPLETED")

\* complete with the end signal sent before the status
complete_sentinel_first(u) ==
    LET r == update_status(u, "COMPLETED")
    IN  Result(r.updater, <<None>> \o r.puts)

complete(u) ==
    LET r == update_status(u, "COMPLETED")
    IN  Result(r.updater, r.puts \o <<None>>)

\* fail that enqueues the error message twice
fail_error_twice(u, error_message) ==
    LET r == update_status(u, "FAILED")
        error_msg ==
            SetIds(new_agent_parts_message(
                       <<TextPart("X Error: " \o Format(error_message))>>, "system"),
                   u.task_id, u.context_id)
    IN  Result(r.updater,
               r.puts \o (IF Truthy(error_message) THEN <<error_msg, error_msg>> ELSE <<>>)
                      \o <<None>>)

\* fail that enqueues the error message before the failed status
fail_error_first(u, error_message) ==
    LET r == update_status(u, "FAILED")
        error_msg ==
            SetIds(new_agent_parts_message(
                       <<TextPart("X Error: " \o Format(error_message))>>, "system"),
                   u.task_id, u.context_id)
    IN  Result(r.updater,
               (IF Truthy(error_message) THEN <<error_msg>> ELSE <<>>)
                   \o r.puts \o <<None>>)

\* fail without the end signal
fail_no_sentinel(u, error_message) ==
    LET r == update_status(u, "FAILED")
        error_msg ==
            SetIds(new_agent_parts_message(
                       <<TextPart("X Error: " \o Format(error_message))>>, "system"),
                   u.task_id, u.context_id)
    IN  Result(r.updater,
               r.puts \o (IF Truthy(error_message) THEN <<error_msg>> ELSE <<>>))

\* fail that leaves the error message out only when error_message is None
fail_error_unless_none(u, error_message) ==
    LET r == update_status(u, "FAILED")
        error_msg ==
            SetIds(new_agent_parts_message(
                       <<TextPart("X Error: " \o Format(error_message))>>, "system"),
                   u.task_id, u.context_id)
    IN  Result(r.updater,
               r.puts \o (IF error_message # None THEN <<error_msg>> ELSE <<>>)
                      \o <<None>>)

fail(u, error_message) ==
    LET r == update_status(u, "FAILED")
        error_msg ==
            SetIds(new_agent_parts_message(
                       <<TextPart("X Error: " \o Format(error_message))>>, "system"),
                   u.task_id, u.context_id)
    IN  Result(r.updater,
               r.puts \o (IF Truthy(error_message) THEN <<error_msg>> ELSE <<>>)
                      \o <<None>>)

(***************************************************************************)
(* event_queue_setup.py: the module's own TaskState, EventQueue and        *)
(* TaskUpdater.  Its TaskState has no CANCELLED member and its fail        *)
(* enqueues the error message whatever error_message is.                   *)
(***************************************************************************)
setup_TaskState ==
    [PENDING   |-> "pending",
     WORKING   |-> "working",
     COMPLETED |-> "completed",
     FAILED    |-> "failed"]

setup_TaskStateMembers == DOMAIN setup_TaskState

setup_new_agent_parts_message(parts, role) ==
    [type |-> "agent_parts", role |-> role, parts |-> parts]

setup_enqueue_event(q, event) == Append(q, event)

setup_TaskUpdater(task_id, context_id) ==
    [task_id |-> task_id, context_id |-> context_id, current_state |-> "PENDING"]

\* state.value of the argument: the members of this module's TaskState have
\* one, and so has a member of a2a_utils.TaskState that a caller passes in
setup_value(state) ==
    IF state \in setup_TaskStateMembers THEN setup_TaskState[state]
    ELSE TaskState[state]

setup_update_status(u, state) ==
    IF state \in setup_TaskStateMembers \cup TaskStateMembers
    THEN Result([u EXCEPT !.current_state = state],
                << [type       |-> "statusUpdate",
                    task_id    |-> u.task_id,
                    context_id |-> u.context_id,
                    state      |-> setup_value(state)] >>)
    ELSE Raises([u EXCEPT !.current_state = state], <<>>, "AttributeError")

\* add_artifact_update without the default for a missing metadata
setup_add_artifact_update_no_default(u, artifact_id, content, metadata) ==
    Result(u,
           << [type        |-> "artifactUpdate",
               task_id     |-> u.task_id,
               context_id  |-> u.context_id,
               artifact_id |-> artifact_id,
               content     |-> content,
               metadata    |-> metadata] >>)

setup_add_artifact_update(u, artifact_id, content, metadata) ==
    Result(u,
           << [type        |-> "artifactUpdate",
               task_id     |-> u.task_id,
               context_id  |-> u.context_id,
               artifact_id |-> artifact_id,
               content     |-> content,
               metadata    |-> IF metadata = None THEN EmptyDict ELSE metadata] >>)

\* complete that sends the end signal twice
setup_complete_two_sentinels(u) ==
    LET r == setup_update_status(u, "COMPLETED")
    IN  Result(r.updater, r.puts \o <<None, None>>)

setup_complete(u) ==
    LET r == setup_update_status(u, "COMPLETED")
    IN  Result(r.updater, r.puts \o <<None>>)

setup_fail(u, error_message) ==
    LET r == setup_update_status(u, "FAILED")
        error_message_event ==
            SetIds(setup_new_agent_parts_message(
                       <<TextPart("X Error: " \o Format(error_message))>>, "system"),
                   u.task_id, u.context_id)
    IN  Result(r.updater, r.puts \o <<error_message_event>> \o <<None>>)

(***************************************************************************)
(* Event shapes.                                                           *)
(***************************************************************************)
IsSentinel(e) == e = None

IsStatusEvent(e) == e # None /\ "type" \in DOMAIN e /\ e.type = "statusUpdate"

IsContentEvent(e) == e # None /\ "type" \in DOMAIN e /\ e.type = "agent_parts"

IsArtifactEvent(e) == e # None /\ "type" \in DOMAIN e /\ e.type = "artifactUpdate"

\* the state values of the StatusEvents of s, in order
RECURSIVE StatesOf(_)
StatesOf(s) ==
    IF s = <<>> THEN <<>>
    ELSE IF IsStatusEvent(Head(s)) THEN <<Head(s).state>> \o StatesOf(Tail(s))
    ELSE StatesOf(Tail(s))

(***************************************************************************)
(* Spec: a caller drives one TaskUpdater("t1", "c1") and its EventQueue.   *)
(***************************************************************************)
TaskId == "t1"

ContextId == "c1"

ArtifactIds == {"summary", "report"}

\* arguments of update_status: the TaskState members and a value that is none
StateInputs == TaskStateMembers \cup {"bogus"}

ErrorMessages == {None, PyStr(""), PyStr("boom")}

PartsInputs == {<<>>, <<TextPart("hi")>>}

ExecIdle == [mode |-> "none", pc |-> 0, exc |-> None, atRaise |-> <<>>]

\* updater = TaskUpdater(event_queue, task_id, context_id) of event_queue_setup.py
\* on an EventQueue of its own; ret is how its last call ended
SetupIdle ==
    [updater  |-> setup_TaskUpdater(TaskId, ContextId),
     enqueued |-> <<>>,
     ret      |-> "ok"]

Init ==
    /\ queue = <<>>
    /\ enqueued = <<>>
    /\ returned = <<>>
    /\ updater = TaskUpdater(TaskId, ContextId)
    /\ call = [op |-> "init", ret |-> "ok"]
    /\ calls = <<>>
    /\ ncalls = 0
    /\ exec = ExecIdle
    /\ bridge = "none"
    /\ wire = <<>>
    /\ setup = SetupIdle

\* the effect of one producer-side call on the channel and the updater
Apply(c, r) ==
    /\ updater' = r.updater
    /\ queue' = EnqueueAll(queue, r.puts)
    /\ enqueued' = enqueued \o r.puts
    /\ call' = [op |-> c.op, ret |-> r.ret]
    /\ calls' = Append(calls, c)

Caller(c, r) ==
    /\ ncalls < MaxCalls
    /\ ncalls' = ncalls + 1
    /\ Apply(c, r)
    /\ UNCHANGED <<returned, exec, bridge, wire, setup>>

UpdateStatus ==
    \E state \in StateInputs :
        Caller([op |-> "update_status", state |-> state],
               update_status(updater, state))

AddArtifactUpdate ==
    \E artifact_id \in ArtifactIds :
        Caller([op |-> "add_artifact_update", artifact_id |-> artifact_id,
                content |-> "done", metadata |-> None],
               add_artifact_update(updater, artifact_id, "done", None))

Complete == Caller([op |-> "complete"], complete(updater))

Fail ==
    \E error_message \in ErrorMessages :
        Caller([op |-> "fail", error_message |-> error_message],
               fail(updater, error_message))

\* event_queue.enqueue(message) with a message built by new_agent_parts_message
Enqueue ==
    \E parts \in PartsInputs :
        Caller([op |-> "enqueue", parts |-> parts, role |-> "assistant"],
               Result(updater,
                      <<SetIds(new_agent_parts_message(parts, "assistant"),
                               updater.task_id, updater.context_id)>>))

\* the single consumer's await event_queue.get(): waits while the queue is empty
Get ==
    /\ ~is_empty(queue)
    /\ returned' = Append(returned, get(queue).event)
    /\ queue' = get(queue).queue
    /\ UNCHANGED <<enqueued, updater, call, calls, ncalls, exec, bridge, wire, setup>>

Next ==
    \/ UpdateStatus
    \/ AddArtifactUpdate
    \/ Complete
    \/ Fail
    \/ Enqueue
    \/ Get

Spec == Init /\ [][Next]_vars

(***************************************************************************)
(* SpecSetup: one caller makes the same calls, one for one, on a           *)
(* TaskUpdater of a2a_utils.py and on a TaskUpdater of                     *)
(* event_queue_setup.py, each over an EventQueue of its own.               *)
(***************************************************************************)
\* arguments of update_status, the same object for both updaters: the
\* members of a2a_utils.TaskState (four of them are members of
\* event_queue_setup.TaskState by name and value) and a value that is none
SetupStateInputs == StateInputs

RECURSIVE SetupEnqueueAll(_, _)
SetupEnqueueAll(q, events) ==
    IF events = <<>> THEN q
    ELSE SetupEnqueueAll(setup_enqueue_event(q, Head(events)), Tail(events))

\* c made on the a2a_utils updater with outcome r and on the
\* event_queue_setup updater with outcome r2
SetupCaller(c, r, r2) ==
    /\ ncalls < MaxCalls
    /\ ncalls' = ncalls + 1
    /\ Apply(c, r)
    /\ setup' = [updater  |-> r2.updater,
                 enqueued |-> SetupEnqueueAll(setup.enqueued, r2.puts),
                 ret      |-> r2.ret]
    /\ UNCHANGED <<returned, exec, bridge, wire>>

SetupUpdateStatus ==
    \E state \in SetupStateInputs :
        SetupCaller([op |-> "update_status", state |-> state],
                    update_status(updater, state),
                    setup_update_status(setup.updater, state))

SetupAddArtifactUpdate ==
    \E artifact_id \in ArtifactIds :
        SetupCaller([op |-> "add_artifact_update", artifact_id |-> artifact_id,
                     content |-> "done", metadata |-> None],
                    add_artifact_update(updater, artifact_id, "done", None),
                    setup_add_artifact_update(setup.updater, artifact_id, "done", None))

SetupComplete ==
    SetupCaller([op |-> "complete"], complete(updater), setup_complete(setup.updater))

SetupFail ==
    \E error_message \in ErrorMessages :
        SetupCaller([op |-> "fail", error_message |-> error_message],
                    fail(updater, error_message),
                    setup_fail(setup.updater, error_message))

\* a message built by new_agent_parts_message and enqueued directly
SetupEnqueue ==
    \E parts \in PartsInputs :
        SetupCaller([op |-> "enqueue", parts |-> parts, role |-> "assistant"],
                    Result(updater,
                           <<SetIds(new_agent_parts_message(parts, "assistant"),
                                    updater.task_id, updater.context_id)>>),
                    Result(setup.updater,
                           <<SetIds(setup_new_agent_parts_message(parts, "assistant"),
                                    setup.updater.task_id, setup.updater.context_id)>>))

NextSetup ==
    \/ SetupUpdateStatus
    \/ SetupAddArtifactUpdate
    \/ SetupComplete
    \/ SetupFail
    \/ SetupEnqueue

SpecSetup == Init /\ [][NextSetup]_vars

(***************************************************************************)
(* agent_executor.py: the calls AgentExecutor.execute makes inside its try *)
(* block, in program order.  Every call is made with the executor's own    *)
(* task_id and context_id (state["task_id"] is self.task_id).              *)
(***************************************************************************)
UpdateStatusCall(state) == [op |-> "update_status", state |-> state]

EnqueueCall(content, role) ==
    [op |-> "enqueue", parts |-> <<TextPart(content)>>, role |-> role]

\* for word in text.split(): enqueue(new_agent_parts_message([word + " "]))
Chunks(words) ==
    [i \in 1..Len(words) |-> EnqueueCall(words[i] \o " ", "assistant")]

research_node ==
    <<UpdateStatusCall("WORKING"), EnqueueCall("Researching...", "system")>>
    \o Chunks(<<"Research", "complete">>)

\* a summary step that stores the artifact before it streams the chunks
summary_node_artifact_first ==
    <<UpdateStatusCall("WORKING"), EnqueueCall("Creating summary...", "system")>>
    \o << [op |-> "add_artifact_update", artifact_id |-> "summary",
           content |-> "Final summary complete",
           metadata |-> [type |-> "summary"]] >>
    \o Chunks(<<"Final", "summary", "complete">>)

summary_node ==
    <<UpdateStatusCall("WORKING"), EnqueueCall("Creating summary...", "system")>>
    \o Chunks(<<"Final", "summary", "complete">>)
    \o << [op |-> "add_artifact_update", artifact_id |-> "summary",
           content |-> "Final summary complete",
           metadata |-> [type |-> "summary"]] >>

\* a try block that streams its first message before any status update
execute_try_content_first ==
    <<EnqueueCall("Researching...", "system"), UpdateStatusCall("WORKING")>>
    \o research_node \o summary_node
    \o <<[op |-> "complete"]>>

execute_try ==
    <<UpdateStatusCall("WORKING")>> \o research_node \o summary_node
    \o <<[op |-> "complete"]>>

\* the effect of one call of the executor's program on updater u
RunCall(u, c) ==
    CASE c.op = "update_status" -> update_status(u, c.state)
      [] c.op = "enqueue" ->
            Result(u, <<SetIds(new_agent_parts_message(c.parts, c.role),
                               u.task_id, u.context_id)>>)
      [] c.op = "add_artifact_update" ->
            add_artifact_update(u, c.artifact_id, c.content, c.metadata)
      [] c.op = "complete" -> complete(u)

\* an except clause that reports success: complete() in place of fail(str(e))
execute_except_completes(u, exc) == complete(u)

\* an except clause that re-raises without reporting the failure
execute_except_raises_first(u, exc) == Result(u, <<>>)

\* except Exception as e: await self.updater.fail(str(e)); raise
execute_except(u, exc) == fail(u, exc)

\* str(e) of the exceptions a processing step may raise
ExceptionTexts == {PyStr(""), PyStr("boom")}

(***************************************************************************)
(* stream_server.py event_generator: what one turn of its while loop does  *)
(* with the item it got.  json.dumps maps None to null and a dict to the   *)
(* object with the same members; each yield is one "data: ..." SSE frame.  *)
(***************************************************************************)
dumps(v) ==
    IF v = None THEN [json |-> "null"] ELSE [json |-> "object", members |-> v]

Frame(v) == [data |-> dumps(v)]

EndFrame == Frame([type |-> "end"])

IsEndFrame(w) ==
    /\ w.data.json = "object"
    /\ "type" \in DOMAIN w.data.members
    /\ w.data.members.type = "end"

\* the loop with the break after the end frame left out: it falls through
\* to the second yield and goes round again
event_generator_no_break(event) ==
    IF event = None
    THEN [yields |-> <<EndFrame, Frame(event)>>, break |-> FALSE]
    ELSE [yields |-> <<Frame(event)>>, break |-> FALSE]

\* a loop that also ends the stream at a completed or failed status
event_generator_end_on_terminal(event) ==
    IF event = None \/ (IsStatusEvent(event) /\ event.state \in {"completed", "failed"})
    THEN [yields |-> <<EndFrame>>, break |-> TRUE]
    ELSE [yields |-> <<Frame(event)>>, break |-> FALSE]

\* a loop that stops at the failed status event without an end frame
event_generator_break_on_failed(event) ==
    IF event = None
    THEN [yields |-> <<EndFrame>>, break |-> TRUE]
    ELSE [yields |-> <<Frame(event)>>,
          break  |-> IsStatusEvent(event) /\ event.state = "failed"]

event_generator_turn(event) ==
    IF event = None
    THEN [yields |-> <<EndFrame>>, break |-> TRUE]
    ELSE [yields |-> <<Frame(event)>>, break |-> FALSE]

(***************************************************************************)
(* SpecServer: event_generator has created the queue, the executor and the *)
(* execution task (stream_server.py:42-48) and enters its loop.            *)
(***************************************************************************)
ExecDone == exec.mode \in {"returned", "raised", "cancelled"}

\* the executor task is not running: it has not started, waits, or is done
ExecSuspended == exec.mode \in {"pending", "sleeping"} \/ ExecDone

InitServer ==
    /\ queue = <<>>
    /\ enqueued = <<>>
    /\ returned = <<>>
    /\ updater = TaskUpdater(TaskId, ContextId)
    /\ call = [op |-> "init", ret |-> "ok"]
    /\ calls = <<>>
    /\ ncalls = 0
    /\ exec = [mode |-> "pending", pc |-> 0, exc |-> None, atRaise |-> <<>>]
    /\ bridge = "get"
    /\ wire = <<>>
    /\ setup = SetupIdle

\* the next call of the try block; returning from the last one ends the task
ExecuteStep ==
    /\ exec.mode \in {"pending", "try"}
    /\ exec.pc < Len(execute_try)
    /\ LET c == execute_try[exec.pc + 1]
       IN  Apply(c, RunCall(updater, c))
    /\ exec' = [exec EXCEPT !.pc = exec.pc + 1,
                            !.mode = IF exec.pc + 1 = Len(execute_try)
                                     THEN "returned" ELSE "try"]
    /\ UNCHANGED <<returned, ncalls, bridge, wire, setup>>

\* a processing step (research_node, summary_node) raises an Exception
ExecuteRaise ==
    /\ exec.mode = "try"
    /\ exec.pc \in 1..(Len(execute_try) - 1)
    /\ \E e \in ExceptionTexts :
          exec' = [exec EXCEPT !.mode = "except", !.exc = e, !.atRaise = enqueued]
    /\ UNCHANGED <<queue, enqueued, returned, updater, call, calls, ncalls, bridge, wire, setup>>

\* the except clause: fail(str(e)), then the exception leaves execute
ExecuteExcept ==
    /\ exec.mode = "except"
    /\ Apply([op |-> "fail", error_message |-> exec.exc],
             execute_except(updater, exec.exc))
    /\ exec' = [exec EXCEPT !.mode = "raised"]
    /\ UNCHANGED <<returned, ncalls, bridge, wire, setup>>

\* the execution task is cancelled from outside before its first step:
\* CancelledError is not an Exception, so the except clause does not run
ExecuteCancel ==
    /\ exec.mode = "pending"
    /\ exec' = [exec EXCEPT !.mode = "cancelled"]
    /\ UNCHANGED <<queue, enqueued, returned, updater, call, calls, ncalls, bridge, wire, setup>>

\* one turn of the while loop: await event_queue.get(), then the yield
GeneratorTurn ==
    /\ bridge = "get"
    /\ ExecSuspended
    /\ ~is_empty(queue)
    /\ LET g == get(queue)
           t == event_generator_turn(g.event)
       IN  /\ queue' = g.queue
           /\ returned' = Append(returned, g.event)
           /\ wire' = wire \o t.yields
           /\ bridge' = IF t.break THEN "await" ELSE "get"
    /\ UNCHANGED <<enqueued, updater, call, calls, ncalls, exec, setup>>

\* await execution_task: returns its result or re-raises what ended it
GeneratorAwait ==
    /\ bridge = "await"
    /\ ExecDone
    /\ bridge' = IF exec.mode = "returned" THEN "done" ELSE "raised"
    /\ UNCHANGED <<queue, enqueued, returned, updater, call, calls, ncalls, exec, wire, setup>>

event_generator == GeneratorTurn \/ GeneratorAwait

NextServer ==
    \/ ExecuteStep
    \/ ExecuteRaise
    \/ ExecuteExcept
    \/ ExecuteCancel
    \/ GeneratorTurn
    \/ GeneratorAwait

SpecServer == InitServer /\ [][NextServer]_vars

\* the event loop runs every task that is ready: the executor's next call and
\* its except clause, the generator's loop turn when the queue has an item,
\* and its final await once the execution task is done
FairSpecServer ==
    /\ SpecServer
    /\ WF_vars(ExecuteStep)
    /\ WF_vars(ExecuteExcept)
    /\ WF_vars(GeneratorTurn)
    /\ WF_vars(GeneratorAwait)

(***************************************************************************)
(* orchestrator_stream_server.py.  Its EventQueue and TaskUpdater come     *)
(* from the a2a package, which is not part of the sources: the channel is  *)
(* the same FIFO (enqueue_event / dequeue_event) and the controller        *)
(* operations follow the TaskLifecycleController contract, with events     *)
(* that are objects of the classes the bridge tells apart by name.         *)
(***************************************************************************)
a2a_new_agent_message(text) ==
    [cls |-> "Message", role |-> "agent", parts |-> <<[cls |-> "TextPart", text |-> text]>>]

a2a_update_status(u, state, message) ==
    Result([u EXCEPT !.current_state = state],
           << [cls        |-> "TaskStatusUpdateEvent",
               task_id    |-> u.task_id,
               context_id |-> u.context_id,
               state      |-> state,
               message    |-> message] >>)

a2a_add_artifact(u, artifact_id, name, last_chunk) ==
    Result(u,
           << [cls         |-> "TaskArtifactUpdateEvent",
               task_id     |-> u.task_id,
               context_id  |-> u.context_id,
               artifact_id |-> artifact_id,
               name        |-> name,
               last_chunk  |-> last_chunk] >>)

a2a_complete(u, message) ==
    LET r == a2a_update_status(u, "completed", message)
    IN  Result(r.updater, r.puts \o <<None>>)

\* SimpleGraph.generate_streaming_response: the steps it yields, each
\* followed by asyncio.sleep(0.1)
StreamedSteps == <<"research", "analysis", "summary">>

\* OrchestratorAgentExecutor.execute with context.current_task set (the
\* MockTask of stream_generator): the calls of its try block in program
\* order; "sleep" is where the task waits
RECURSIVE StreamingLoop(_)
StreamingLoop(steps) ==
    IF steps = <<>> THEN <<>>
    ELSE << [op |-> "enqueue_event",
             message |-> a2a_new_agent_message("Processssing: " \o Head(steps))],
            [op |-> "sleep"] >>
         \o StreamingLoop(Tail(steps))

orchestrator_try ==
    << [op |-> "update_status", state |-> "working",
        message |-> a2a_new_agent_message("Investigation started")] >>
    \o StreamingLoop(StreamedSteps)
    \o << [op |-> "add_artifact", artifact_id |-> "report-" \o TaskId,
           name |-> "Investigation Report", last_chunk |-> TRUE],
          [op |-> "complete",
           message |-> a2a_new_agent_message("Investigation complete")] >>

RunOrchestratorCall(u, c) ==
    CASE c.op = "update_status" -> a2a_update_status(u, c.state, c.message)
      [] c.op = "enqueue_event" -> Result(u, <<c.message>>)
      [] c.op = "add_artifact" ->
            a2a_add_artifact(u, c.artifact_id, c.name, c.last_chunk)
      [] c.op = "complete" -> a2a_complete(u, c.message)

\* except Exception as e: await updater.complete(message=error_message); raise
orchestrator_except(u, exc) ==
    a2a_complete(u, a2a_new_agent_message("Execution failed: " \o Format(exc)))

(***************************************************************************)
(* stream_generator: the routing of one dequeued event by the name of its  *)
(* class ('Status' in event_type, elif 'Message' ..., elif 'Artifact').    *)
(***************************************************************************)
TypeName(event) == IF event = None THEN "NoneType" ELSE event.cls

\* which of the three tested substrings each class name contains
NameContains ==
    [TaskStatusUpdateEvent   |-> {"Status"},
     Message                 |-> {"Message"},
     TaskArtifactUpdateEvent |-> {"Artifact"},
     Task                    |-> {},
     NoneType                |-> {}]

\* the wire events one loop turn yields for the event: one or none
stream_generator_route(event) ==
    LET event_type == TypeName(event)
    IN  IF "Status" \in NameContains[event_type]
        THEN << [event |-> "statusUpdate",
                 data  |-> [state |-> "TaskState." \o event.state,
                            hasMessage |-> event.message # None]] >>
        ELSE IF "Message" \in NameContains[event_type]
        THEN << [event |-> "agent_parts",
                 data  |-> [role |-> event.role, parts |-> event.parts]] >>
        ELSE IF "Artifact" \in NameContains[event_type]
        THEN << [event |-> "artifactUpdate",
                 data  |-> [artifactId |-> event.artifact_id,
                            name |-> event.name,
                            lastChunk |-> event.last_chunk]] >>
        ELSE <<>>

(***************************************************************************)
(* SpecOrch: stream_generator has created the queue and the executor task  *)
(* (orchestrator_stream_server.py:176-195) and enters its loop.            *)
(***************************************************************************)
InitOrch ==
    /\ queue = <<>>
    /\ enqueued = <<>>
    /\ returned = <<>>
    /\ updater = TaskUpdater(TaskId, ContextId)
    /\ call = [op |-> "init", ret |-> "ok"]
    /\ calls = <<>>
    /\ ncalls = 0
    /\ exec = [mode |-> "pending", pc |-> 0, exc |-> None, atRaise |-> <<>>]
    /\ bridge = "wait"
    /\ wire = <<>>
    /\ setup = SetupIdle

\* the executor task runs its next call, or reaches a sleep and waits
OrchestratorStep ==
    /\ exec.mode \in {"pending", "try"}
    /\ exec.pc < Len(orchestrator_try)
    /\ LET c == orchestrator_try[exec.pc + 1]
       IN  IF c.op = "sleep"
           THEN /\ exec' = [exec EXCEPT !.pc = exec.pc + 1, !.mode = "sleeping"]
                /\ UNCHANGED <<queue, enqueued, updater, call, calls>>
           ELSE /\ Apply(c, RunOrchestratorCall(updater, c))
                /\ exec' = [exec EXCEPT !.pc = exec.pc + 1,
                                        !.mode = IF exec.pc + 1 = Len(orchestrator_try)
                                                 THEN "returned" ELSE "try"]
    /\ UNCHANGED <<returned, ncalls, bridge, wire, setup>>

\* asyncio.sleep(0.1) is over
OrchestratorWake ==
    /\ exec.mode = "sleeping"
    /\ exec' = [exec EXCEPT !.mode = "try"]
    /\ UNCHANGED <<queue, enqueued, returned, updater, call, calls, ncalls, bridge, wire, setup>>

\* something inside the try block raises an Exception
OrchestratorRaise ==
    /\ exec.mode = "try"
    /\ \E e \in ExceptionTexts :
          exec' = [exec EXCEPT !.mode = "except", !.exc = e, !.atRaise = enqueued]
    /\ UNCHANGED <<queue, enqueued, returned, updater, call, calls, ncalls, bridge, wire, setup>>

OrchestratorExcept ==
    /\ exec.mode = "except"
    /\ Apply([op |-> "complete", message |-> "Execution failed: " \o Format(exec.exc)],
             orchestrator_except(updater, exec.exc))
    /\ exec' = [exec EXCEPT !.mode = "raised"]
    /\ UNCHANGED <<returned, ncalls, bridge, wire, setup>>

\* the executor task is cancelled from outside while it waits
OrchestratorCancel ==
    /\ exec.mode \in {"pending", "sleeping"}
    /\ exec' = [exec EXCEPT !.mode = "cancelled"]
    /\ UNCHANGED <<queue, enqueued, returned, updater, call, calls, ncalls, bridge, wire, setup>>

\* where the loop goes at "if executor_task.done(): break"; the finally
\* clause that follows the break finds the task done and does nothing
AfterDoneCheck == IF ExecDone THEN "done" ELSE "wait"

\* wait_for(dequeue_event(), 0.5) returns an event: it is routed; a routed
\* event is yielded to the reader, an unrouted one goes straight to the check
StreamDequeue ==
    /\ bridge = "wait"
    /\ ExecSuspended
    /\ ~is_empty(queue)
    /\ LET g == get(queue)
           yields == stream_generator_route(g.event)
       IN  /\ queue' = g.queue
           /\ returned' = Append(returned, g.event)
           /\ wire' = wire \o yields
           /\ bridge' = IF yields # <<>> THEN "yielded" ELSE AfterDoneCheck
    /\ UNCHANGED <<enqueued, updater, call, calls, ncalls, exec, setup>>

\* the reader asks for the next event: the loop resumes after the yield
StreamResume ==
    /\ bridge = "yielded"
    /\ ExecSuspended
    /\ bridge' = AfterDoneCheck
    /\ UNCHANGED <<queue, enqueued, returned, updater, call, calls, ncalls, exec, wire, setup>>

\* wait_for times out on the empty queue: except asyncio.TimeoutError
StreamTimeout ==
    /\ bridge = "wait"
    /\ ExecSuspended
    /\ is_empty(queue)
    /\ bridge' = AfterDoneCheck
    /\ UNCHANGED <<queue, enqueued, returned, updater, call, calls, ncalls, exec, wire, setup>>

\* except Exception as e: the clause is outside the while loop, so after the
\* yield of the error event only the finally clause is left.  yields are the
\* wire events, next the position the generator is left in.
\* the clause moved inside the loop: the generator goes on draining
stream_generator_except_continues(e) ==
    [yields |-> << [event |-> "error", data |-> [error |-> Format(e)]] >>,
     next   |-> "wait"]

stream_generator_except(e) ==
    [yields |-> << [event |-> "error", data |-> [error |-> Format(e)]] >>,
     next   |-> "error"]

\* a finally clause that leaves the executor task alone
stream_generator_finally_no_cancel(task) == task

\* finally: if not executor_task.done(): executor_task.cancel().  The task
\* waits (it has not started, or sleeps), so CancelledError ends it; its
\* except Exception clause does not catch CancelledError.
stream_generator_finally(task) ==
    IF task.mode \in {"returned", "raised", "cancelled"} THEN task
    ELSE [task EXCEPT !.mode = "cancelled"]

\* an Exception other than the timeout inside the loop body: raised by the
\* dequeue itself (taken = FALSE) or while the dequeued event is formatted
\* (taken = TRUE, the event is not yielded); the except clause yields 'error'
StreamError ==
    /\ bridge = "wait"
    /\ ExecSuspended
    /\ \E e \in ExceptionTexts, taken \in BOOLEAN :
          /\ taken => ~is_empty(queue)
          /\ queue' = IF taken THEN get(queue).queue ELSE queue
          /\ returned' = IF taken THEN Append(returned, get(queue).event) ELSE returned
          /\ wire' = wire \o stream_generator_except(e).yields
          /\ bridge' = stream_generator_except(e).next
    /\ UNCHANGED <<enqueued, updater, call, calls, ncalls, exec, setup>>

\* the reader asks for the next event after 'error': the generator resumes
\* after that yield, runs the finally clause and ends
StreamFinish ==
    /\ bridge = "error"
    /\ ExecSuspended
    /\ bridge' = "errored"
    /\ exec' = stream_generator_finally(exec)
    /\ UNCHANGED <<queue, enqueued, returned, updater, call, calls, ncalls, wire, setup>>

NextOrch ==
    \/ OrchestratorStep
    \/ OrchestratorWake
    \/ OrchestratorRaise
    \/ OrchestratorExcept
    \/ OrchestratorCancel
    \/ StreamDequeue
    \/ StreamResume
    \/ StreamTimeout
    \/ StreamError
    \/ StreamFinish

SpecOrch == InitOrch /\ [][NextOrch]_vars

(***************************************************************************)
(* SpecOrchNewTask: OrchestratorAgentExecutor.execute run with a context   *)
(* that has no current task (the branch of lines 91-95: it makes the task  *)
(* with new_task and enqueues it before anything else), drained by the     *)
(* loop of stream_generator.                                               *)
(***************************************************************************)
\* a2a.server.tasks.new_task(context.message): a Task object
a2a_new_task(task_id, context_id) ==
    [cls |-> "Task", id |-> task_id, context_id |-> context_id]

\* if not task: task = new_task(context.message); enqueue_event(task)
OrchestratorNewTask ==
    /\ exec.mode = "pending"
    /\ Apply([op |-> "enqueue_event", message |-> a2a_new_task(TaskId, ContextId)],
             Result(updater, <<a2a_new_task(TaskId, ContextId)>>))
    /\ exec' = [exec EXCEPT !.mode = "try"]
    /\ UNCHANGED <<returned, ncalls, bridge, wire, setup>>

NextOrchNewTask ==
    \/ OrchestratorNewTask
    \/ (exec.mode # "pending" /\ OrchestratorStep)
    \/ OrchestratorWake
    \/ OrchestratorRaise
    \/ OrchestratorExcept
    \/ OrchestratorCancel
    \/ StreamDequeue
    \/ StreamResume
    \/ StreamTimeout
    \/ StreamError
    \/ StreamFinish

SpecOrchNewTask == InitOrch /\ [][NextOrchNewTask]_vars

(***************************************************************************)
(* SpecBridges: either bridge with a reader that may stop reading before   *)
(* the stream is over (the client disconnects, the response times out, the *)
(* generator is closed).  The generator is then ended where it waits:      *)
(* GeneratorExit at a yield, CancelledError at an await.  Neither is an    *)
(* Exception, so only a finally clause runs.                               *)
(***************************************************************************)
\* event_generator has no try statement: nothing runs when it is ended.
\* Its execution task was scheduled by create_task before the generator
\* first waited and execute never waits, so the task has had its run by the
\* time the reader's stop reaches the generator.
GeneratorClose ==
    /\ bridge = "get"
    /\ ExecSuspended
    /\ exec.mode # "pending"
    /\ bridge' = "closed"
    /\ UNCHANGED <<queue, enqueued, returned, updater, call, calls, ncalls, exec, wire, setup>>

\* stream_generator is ended inside its try statement: the finally clause runs
StreamClose ==
    /\ bridge \in {"wait", "yielded", "error"}
    /\ ExecSuspended
    /\ bridge' = "closed"
    /\ exec' = stream_generator_finally(exec)
    /\ UNCHANGED <<queue, enqueued, returned, updater, call, calls, ncalls, wire, setup>>

InitBridges == InitServer \/ InitOrch

\* which generator is running, by the positions it can be in
InEventGenerator == bridge \in {"get", "await"}

InStreamGenerator == bridge \in {"wait", "yielded", "error"}

NextBridges ==
    \/ (InEventGenerator /\ ExecuteStep)
    \/ (InEventGenerator /\ ExecuteRaise)
    \/ (InEventGenerator /\ ExecuteExcept)
    \/ (InEventGenerator /\ ExecuteCancel)
    \/ (InEventGenerator /\ GeneratorTurn)
    \/ (InEventGenerator /\ GeneratorAwait)
    \/ (InEventGenerator /\ GeneratorClose)
    \/ (InStreamGenerator /\ OrchestratorStep)
    \/ (InStreamGenerator /\ OrchestratorWake)
    \/ (InStreamGenerator /\ OrchestratorRaise)
    \/ (InStreamGenerator /\ OrchestratorExcept)
    \/ (InStreamGenerator /\ OrchestratorCancel)
    \/ (InStreamGenerator /\ StreamDequeue)
    \/ (InStreamGenerator /\ StreamResume)
    \/ (InStreamGenerator /\ StreamTimeout)
    \/ (InStreamGenerator /\ StreamError)
    \/ (InStreamGenerator /\ StreamFinish)
    \/ (InStreamGenerator /\ StreamClose)

SpecBridges == InitBridges /\ [][NextBridges]_vars

\* the generator has ended
BridgeStopped == bridge \in {"done", "raised", "errored", "closed"}

(***************************************************************************)
(* Properties of Spec.                                                     *)
(***************************************************************************)

\* C1: in the sequence of items passed to enqueue, the EndOfStream sentinel
\* (None) occurs at most once and, when it occurs, it is the last item.
C1_SentinelOnceAndLast ==
    \A i \in 1..Len(enqueued) : IsSentinel(enqueued[i]) => i = Len(enqueued)

\* C2: the items returned by get() are at all times a prefix of the items
\* passed to enqueue(), and the items not yet returned are exactly the rest
\* of that sequence in the same order (none reordered, duplicated, dropped
\* or merged).
C2_ReturnedIsPrefixOfEnqueued ==
    /\ Len(returned) <= Len(enqueued)
    /\ returned = SubSeq(enqueued, 1, Len(returned))
    /\ enqueued = returned \o queue

C2_Witness ==
    /\ Len(returned) >= 2
    /\ returned[1] # returned[2]
    /\ Len(queue) >= 1
    /\ Last(queue) # returned[1]

\* C3: the state values of the StatusEvents, in enqueue order, are zero or
\* more "working" followed by at most one terminal value; no StatusEvent
\* follows a terminal one.
C3_WorkingThenOneTerminal ==
    LET states == StatesOf(enqueued)
    IN  \A i \in 1..Len(states) :
            /\ states[i] \in {TaskState.WORKING} \cup TerminalValues
            /\ states[i] \in TerminalValues => i = Len(states)

\* C4: once complete() or fail() has left the controller in a terminal state,
\* every further mutating TaskUpdater call ends with InvalidTransition,
\* enqueues nothing and leaves current_state unchanged.
TerminatedByController ==
    /\ updater.current_state \in {"COMPLETED", "FAILED"}
    /\ None \in Range(enqueued)

MutatingCalls == {"update_status", "add_artifact_update", "complete", "fail"}

C4_RejectsAfterTerminal ==
    [][(TerminatedByController /\ ncalls' = ncalls + 1 /\ call'.op \in MutatingCalls)
         => /\ call'.ret = "InvalidTransition"
            /\ enqueued' = enqueued
            /\ updater'.current_state = updater.current_state]_vars

\* C5: every StatusEvent in the channel has no "parts" field; every
\* ContentEvent has a non-empty "parts" field and no "state" field.
C5_EventShapes ==
    \A i \in 1..Len(enqueued) :
        LET e == enqueued[i]
        IN  /\ IsStatusEvent(e) => "parts" \notin DOMAIN e
            /\ IsContentEvent(e) =>
                   /\ "parts" \in DOMAIN e
                   /\ e.parts # <<>>
                   /\ "state" \notin DOMAIN e

(***************************************************************************)
(* Properties of SpecServer.                                               *)
(***************************************************************************)

\* C6: event_generator yields nothing after its end frame: the end frame,
\* once on the wire, is the last wire event.
C6_NothingAfterEnd ==
    \A i \in 1..Len(wire) : IsEndFrame(wire[i]) => i = Len(wire)

C6_Witness ==
    /\ bridge \in {"done", "raised"}
    /\ Len(wire) >= 2
    /\ IsEndFrame(Last(wire))

\* C7: when the producer has terminated without enqueuing the sentinel, the
\* generator is not left waiting in its drain loop: it still has a step to
\* take (its wait ends and it sees that the producer has finished).
C7_DrainLoopNotStuck ==
    (ExecDone /\ None \notin Range(enqueued) /\ bridge = "get")
        => ENABLED event_generator

\* C10: when a processing step raised after k >= 1 events, the channel holds
\* those k events in order (the first being statusUpdate(working)), then
\* statusUpdate(failed), then at most one error agent_parts event, then the
\* sentinel, and nothing else.
C10_FailureStream ==
    exec.mode = "raised" =>
        LET k == Len(exec.atRaise)
            rest == SubSeq(enqueued, k + 1, Len(enqueued))
        IN  /\ k >= 1
            /\ SubSeq(enqueued, 1, k) = exec.atRaise
            /\ IsStatusEvent(enqueued[1])
            /\ enqueued[1].state = TaskState.WORKING
            /\ enqueued = returned \o queue
            /\ Len(rest) \in {2, 3}
            /\ IsStatusEvent(rest[1])
            /\ rest[1].state = TaskState.FAILED
            /\ Len(rest) = 3 => IsContentEvent(rest[2])
            /\ IsSentinel(Last(rest))
            /\ \A i \in 1..k : ~IsSentinel(enqueued[i])

C10_Witness ==
    /\ exec.mode = "raised"
    /\ Len(exec.atRaise) >= 3
    /\ Len(enqueued) = Len(exec.atRaise) + 3

(***************************************************************************)
(* Properties of SpecOrch.                                                 *)
(***************************************************************************)

\* C8: when stream_generator has left its loop because the executor task is
\* done, every event the executor enqueued has been dequeued and routed:
\* none is left in the channel.
C8_AllForwardedAtExit ==
    bridge = "done" => (is_empty(queue) /\ returned = enqueued)

\* C9: whenever stream_generator has finished, the last wire event it
\* yielded is "end" or "error".
C9_EndsWithEndOrError ==
    bridge = "done" => (wire # <<>> /\ Last(wire).event \in {"end", "error"})

(***************************************************************************)
(* Properties of AgentExecutor.execute and event_generator (SpecServer).   *)
(***************************************************************************)
SentinelCount(s) == Cardinality({i \in 1..Len(s) : IsSentinel(s[i])})

IsTerminalStatus(e) == IsStatusEvent(e) /\ e.state \in TerminalValues

IsFailedStatus(e) == IsStatusEvent(e) /\ e.state = TaskState.FAILED

\* C11: when the exception of a failed step has left execute, the failure
\* was reported through fail(str(e)) first: the last call made is fail with
\* the exception's text, a failed StatusEvent has been enqueued and the last
\* item enqueued is the sentinel.
C11_FailBeforeReraise ==
    exec.mode = "raised" =>
        /\ call.op = "fail"
        /\ Last(calls) = [op |-> "fail", error_message |-> exec.exc]
        /\ \E i \in 1..Len(enqueued) : IsFailedStatus(enqueued[i])
        /\ IsSentinel(Last(enqueued))

C11_Witness ==
    /\ exec.mode = "raised"
    /\ bridge = "get"
    /\ exec.exc = PyStr("")
    /\ Len(exec.atRaise) = 1

\* C13: a run of execute that has returned or raised has called exactly one
\* of complete and fail, exactly once, and has enqueued exactly one
\* sentinel; no run calls them more often at any point.
IsCompleteOrFail(c) == c.op \in {"complete", "fail"}

TerminalCallCount(s) == Cardinality({i \in 1..Len(s) : IsCompleteOrFail(s[i])})

TerminalStatusCount(s) == Cardinality({i \in 1..Len(s) : IsTerminalStatus(s[i])})

C13_ExactlyOneTerminalCall ==
    /\ TerminalCallCount(calls) <= 1
    /\ SentinelCount(enqueued) <= 1
    /\ exec.mode \in {"returned", "raised"} =>
          /\ TerminalCallCount(calls) = 1
          /\ SentinelCount(enqueued) = 1
          /\ TerminalStatusCount(enqueued) = 1
          /\ (exec.mode = "returned") = (Last(calls).op = "complete")

C13_Witness ==
    /\ exec.mode = "raised"
    /\ Len(exec.atRaise) = Len(execute_try) - 1
    /\ SentinelCount(enqueued) = 1

\* C14: under fair scheduling, every run in which the executor has started
\* (all steps succeeding, or a step raising) leads to the end frame on the
\* wire and to the generator having terminated.
StreamEnded ==
    /\ bridge \in {"done", "raised"}
    /\ wire # <<>>
    /\ IsEndFrame(Last(wire))

C14_EventuallyEnds == (exec.mode = "try") ~> StreamEnded

C14_Witness ==
    /\ StreamEnded
    /\ bridge = "raised"
    /\ exec.mode = "raised"
    /\ exec.exc = PyStr("boom")

\* C15: the wire sequence is at all times a prefix of the frames of the
\* events enqueued before the first sentinel, in enqueue order, followed by
\* one end frame; once the generator has left its loop it is all of it.
RECURSIVE BeforeSentinel(_)
BeforeSentinel(s) ==
    IF s = <<>> \/ IsSentinel(Head(s)) THEN <<>>
    ELSE <<Head(s)>> \o BeforeSentinel(Tail(s))

Frames(s) == [i \in 1..Len(s) |-> Frame(s[i])]

C15_WireIsEnqueuedThenEnd ==
    LET expected == Frames(BeforeSentinel(enqueued)) \o <<EndFrame>>
    IN  /\ Len(wire) <= Len(expected)
        /\ wire = SubSeq(expected, 1, Len(wire))
        /\ (bridge # "get" /\ None \in Range(enqueued)) => wire = expected
        /\ (bridge = "get" /\ wire # <<>>) => ~IsEndFrame(Last(wire))

C15_Witness ==
    /\ bridge = "done"
    /\ Len(wire) = Len(enqueued)
    /\ Len(wire) = Len(execute_try) + 1

(***************************************************************************)
(* Properties of OrchestratorAgentExecutor.execute (SpecOrch).             *)
(***************************************************************************)

\* C12: when an exception has left OrchestratorAgentExecutor.execute, the
\* last status enqueued is a terminal failed status and no completed status
\* has been enqueued.
C12_FailureBecomesFailed ==
    exec.mode = "raised" =>
        /\ updater.current_state = "failed"
        /\ \A i \in 1..Len(enqueued) :
              (enqueued[i] # None /\ enqueued[i].cls = "TaskStatusUpdateEvent")
                  => enqueued[i].state # "completed"

(***************************************************************************)
(* Properties of TaskUpdater and EventQueue under any caller (Spec).       *)
(***************************************************************************)
ScenarioA ==
    << [op |-> "update_status", state |-> "WORKING"],
       [op |-> "enqueue", parts |-> <<TextPart("hi")>>, role |-> "assistant"],
       [op |-> "complete"] >>

\* C16: Scenario A: on a fresh controller, update_status(WORKING), one direct
\* enqueue of an assistant ContentEvent, then complete() put exactly four
\* items in the channel: statusUpdate(working), the agent_parts event,
\* statusUpdate(completed), the sentinel.
C16_ScenarioA ==
    calls = ScenarioA =>
        /\ Len(enqueued) = 4
        /\ IsStatusEvent(enqueued[1]) /\ enqueued[1].state = "working"
        /\ IsContentEvent(enqueued[2])
        /\ enqueued[2].role = "assistant"
        /\ enqueued[2].parts = <<TextPart("hi")>>
        /\ IsStatusEvent(enqueued[3]) /\ enqueued[3].state = "completed"
        /\ IsSentinel(enqueued[4])
        /\ returned \o queue = enqueued

C16_Witness ==
    /\ calls = ScenarioA
    /\ returned = <<>>
    /\ Len(queue) = 4

\* C17: the artifactUpdate events in the channel are, in order, one per
\* add_artifact_update call and carry that call's artifact_id and content:
\* n calls, also with the same artifact_id, give n separate events.
IsArtifactCall(c) == c.op = "add_artifact_update"

\* the artifactUpdate events of s, in order
RECURSIVE ArtifactEventsOf(_)
ArtifactEventsOf(s) ==
    IF s = <<>> THEN <<>>
    ELSE (IF IsArtifactEvent(Head(s)) THEN <<Head(s)>> ELSE <<>>)
         \o ArtifactEventsOf(Tail(s))

\* the add_artifact_update calls of s, in order
RECURSIVE ArtifactCallsOf(_)
ArtifactCallsOf(s) ==
    IF s = <<>> THEN <<>>
    ELSE (IF IsArtifactCall(Head(s)) THEN <<Head(s)>> ELSE <<>>)
         \o ArtifactCallsOf(Tail(s))

C17_OneArtifactEventPerCall ==
    LET events == ArtifactEventsOf(enqueued)
        made   == ArtifactCallsOf(calls)
    IN  /\ Len(events) = Len(made)
        /\ \A i \in 1..Len(made) :
              /\ events[i].artifact_id = made[i].artifact_id
              /\ events[i].content = made[i].content

C17_Witness ==
    /\ Len(calls) = 3
    /\ calls[1].op = "add_artifact_update"
    /\ calls[2] = calls[1]
    /\ calls[3].op = "complete"
    /\ Len(ArtifactEventsOf(enqueued)) = 2

\* C18: a direct enqueue made after the sentinel has been enqueued fails
\* explicitly and leaves the channel as it was.
C18_EnqueueAfterSentinelFails ==
    [][(None \in Range(enqueued) /\ ncalls' = ncalls + 1 /\ call'.op = "enqueue")
         => /\ call'.ret # "ok"
            /\ enqueued' = enqueued
            /\ queue' = queue]_vars

\* C19: an enqueue is possible in every state and, whatever preceded it,
\* returns normally with the event appended at the tail of the channel.
EnqueuedEvent(c) ==
    SetIds(new_agent_parts_message(c.parts, c.role), TaskId, ContextId)

C20_IllegalStateRejectedUnchanged ==
    [][(ncalls' = ncalls + 1 /\ call'.op = "update_status"
            /\ Last(calls').state \notin TaskStateMembers)
         => /\ call'.ret # "ok"
            /\ updater'.current_state = updater.current_state
            /\ enqueued' = enqueued]_vars

(***************************************************************************)
(* Properties of the TaskUpdater operations, one call at a time.           *)
(***************************************************************************)

\* C21: a successful update_status(s) with a legal state s sets current_state
\* to s and enqueues exactly one item: a statusUpdate event carrying s and the
\* updater's task_id and context_id, appended at the tail of the channel.
C21_UpdateStatusSetsAndEnqueues ==
    [][(/\ ncalls' = ncalls + 1
        /\ call'.op = "update_status"
        /\ call'.ret = "ok"
        /\ Last(calls').state \in TaskStateMembers)
         => LET s == Last(calls').state
                e == Last(enqueued')
            IN  /\ updater'.current_state = s
                /\ Len(enqueued') = Len(enqueued) + 1
                /\ enqueued' = Append(enqueued, e)
                /\ queue' = Append(queue, e)
                /\ IsStatusEvent(e)
                /\ e.state = TaskState[s]
                /\ e.task_id = updater.task_id
                /\ e.context_id = updater.context_id]_vars

C21_Witness ==
    /\ call = [op |-> "update_status", ret |-> "ok"]
    /\ Last(calls).state = "CANCELLED"
    /\ updater.current_state = "CANCELLED"
    /\ Len(enqueued) = 3
    /\ IsStatusEvent(Last(enqueued))
    /\ Last(enqueued).state = "cancelled"

(***************************************************************************)
(* Properties of complete and fail in both TaskUpdater implementations     *)
(* (SpecSetup).                                                            *)
(***************************************************************************)
\* the items a call added to a channel history
Added(before, after) == SubSeq(after, Len(before) + 1, Len(after))

StatusEventFor(u, value) ==
    [type |-> "statusUpdate", task_id |-> u.task_id,
     context_id |-> u.context_id, state |-> value]

\* C22: in both implementations complete() leaves current_state and the
\* channel as update_status(COMPLETED) followed by an enqueue of the sentinel
\* does: it appends exactly two items, the completed statusUpdate event and
\* then the sentinel, and current_state is COMPLETED.
C22_CompleteIsStatusThenSentinel ==
    [][(ncalls' = ncalls + 1 /\ call'.op = "complete")
         => LET r  == update_status(updater, "COMPLETED")
                r2 == setup_update_status(setup.updater, "COMPLETED")
            IN  /\ call'.ret = "ok"
                /\ updater' = r.updater
                /\ updater'.current_state = "COMPLETED"
                /\ enqueued' = enqueued \o r.puts \o <<None>>
                /\ queue' = enqueue(EnqueueAll(queue, r.puts), None)
                /\ Added(enqueued, enqueued')
                       = <<StatusEventFor(updater, "completed"), None>>
                /\ setup'.ret = "ok"
                /\ setup'.updater = r2.updater
                /\ setup'.updater.current_state = "COMPLETED"
                /\ setup'.enqueued = setup.enqueued \o r2.puts \o <<None>>
                /\ Added(setup.enqueued, setup'.enqueued)
                       = <<StatusEventFor(setup.updater, "completed"), None>>]_vars

C22_Witness ==
    /\ call = [op |-> "complete", ret |-> "ok"]
    /\ Len(calls) = 2
    /\ calls[1].op = "enqueue"
    /\ Len(enqueued) = 3
    /\ Len(setup.enqueued) = 3
    /\ IsSentinel(Last(setup.enqueued))
    /\ setup.updater.current_state = "COMPLETED"

\* the items one fail call adds: the failed statusUpdate event, then at most
\* one agent_parts event with role "system", then the sentinel
IsFailGroup(u, added) ==
    /\ Len(added) \in {2, 3}
    /\ added[1] = StatusEventFor(u, "failed")
    /\ Len(added) = 3 =>
          /\ IsContentEvent(added[2])
          /\ added[2].role = "system"
          /\ added[2].task_id = u.task_id
          /\ added[2].context_id = u.context_id
    /\ IsSentinel(added[Len(added)])

\* C23: in both implementations fail(msg) has the effect of
\* update_status(FAILED), then at most one error agent_parts event, then the
\* sentinel: the failed statusUpdate event is the first item added and the
\* sentinel the last.
C23_FailIsStatusErrorSentinel ==
    [][(ncalls' = ncalls + 1 /\ call'.op = "fail")
         => /\ call'.ret = "ok"
            /\ updater' = update_status(updater, "FAILED").updater
            /\ updater'.current_state = "FAILED"
            /\ enqueued' = enqueued \o Added(enqueued, enqueued')
            /\ queue' = queue \o Added(enqueued, enqueued')
            /\ IsFailGroup(updater, Added(enqueued, enqueued'))
            /\ setup'.ret = "ok"
            /\ setup'.updater = setup_update_status(setup.updater, "FAILED").updater
            /\ setup'.updater.current_state = "FAILED"
            /\ setup'.enqueued = setup.enqueued \o Added(setup.enqueued, setup'.enqueued)
            /\ IsFailGroup(setup.updater, Added(setup.enqueued, setup'.enqueued))]_vars

C23_Witness ==
    /\ call = [op |-> "fail", ret |-> "ok"]
    /\ Last(calls).error_message = PyStr("")
    /\ Len(calls) = 2
    /\ Len(enqueued) = 3
    /\ Len(setup.enqueued) = 4
    /\ IsContentEvent(setup.enqueued[3])

(***************************************************************************)
(* Properties of stream_generator (SpecOrch).                              *)
(***************************************************************************)
\* the class name of the event matches none of the three routing cases
Unroutable(event) == NameContains[TypeName(event)] = {}

HasErrorEvent(w) == \E i \in 1..Len(w) : w[i].event = "error"

C25_ErrorEventThenStop ==
    /\ [][(bridge = "wait" /\ bridge' = "error")
            => /\ Len(wire') = Len(wire) + 1
               /\ SubSeq(wire', 1, Len(wire)) = wire
               /\ Last(wire').event = "error"
               /\ ~HasErrorEvent(wire)]_vars
    /\ [][HasErrorEvent(wire) => (wire' = wire /\ returned' = returned)]_vars
    /\ [](bridge = "errored" => (wire # <<>> /\ Last(wire).event = "error"))

C25_Witness ==
    /\ bridge = "errored"
    /\ Len(wire) >= 3
    /\ Last(wire).event = "error"
    /\ ~HasErrorEvent(SubSeq(wire, 1, Len(wire) - 1))
    /\ ~is_empty(queue)

(***************************************************************************)
(* Properties of both bridges with a reader that may stop (SpecBridges).   *)
(***************************************************************************)

IsWorkingStatus(e) == IsStatusEvent(e) /\ e.state = TaskState.WORKING

\* C27: in every run of AgentExecutor.execute the first event enqueued is
\* statusUpdate(working), and every agent_parts or artifactUpdate event has
\* a statusUpdate(working) of the same task before it.
C27_WorkingBeforeContent ==
    /\ enqueued # <<>> => IsWorkingStatus(enqueued[1])
    /\ \A i \in 1..Len(enqueued) :
          (IsContentEvent(enqueued[i]) \/ IsArtifactEvent(enqueued[i]))
              => \E j \in 1..(i - 1) :
                    /\ IsWorkingStatus(enqueued[j])
                    /\ enqueued[j].task_id = enqueued[i].task_id

C27_Witness ==
    /\ exec.mode = "raised"
    /\ Len(exec.atRaise) = 3
    /\ IsContentEvent(enqueued[3])
    /\ IsContentEvent(enqueued[Len(enqueued) - 1])

\* the kind of an item of the channel
EventKind(e) ==
    IF IsSentinel(e) THEN "EndOfStream"
    ELSE IF IsStatusEvent(e) THEN "StatusEvent"
    ELSE IF IsContentEvent(e) THEN "ContentEvent"
    ELSE IF IsArtifactEvent(e) THEN "ArtifactEvent"
    ELSE "other"

\* the name a wire frame carries: the "type" member of its JSON object
WireName(w) ==
    IF w.data.json = "object" /\ "type" \in DOMAIN w.data.members
    THEN w.data.members.type
    ELSE "none"

\* C28: event_generator yields one frame per item it got, named after the
\* item's kind: statusUpdate for a StatusEvent, agent_parts for a
\* ContentEvent, artifactUpdate for an ArtifactEvent, end for the sentinel;
\* every item is of one of the four kinds, no two kinds share a name and
\* the end frame is yielded for the sentinel only.
C28_KindToWireName ==
    LET name == [StatusEvent   |-> "statusUpdate",
                 ContentEvent  |-> "agent_parts",
                 ArtifactEvent |-> "artifactUpdate",
                 EndOfStream   |-> "end"]
    IN  /\ Len(wire) = Len(returned)
        /\ \A i \in 1..Len(wire) :
              /\ EventKind(returned[i]) \in DOMAIN name
              /\ WireName(wire[i]) = name[EventKind(returned[i])]
              /\ IsEndFrame(wire[i]) <=> IsSentinel(returned[i])
        /\ \A i, j \in 1..Len(wire) :
              WireName(wire[i]) = WireName(wire[j])
                  <=> EventKind(returned[i]) = EventKind(returned[j])

C28_Witness ==
    /\ bridge = "done"
    /\ \A k \in {"StatusEvent", "ContentEvent", "ArtifactEvent", "EndOfStream"} :
          \E i \in 1..Len(returned) :
              EventKind(returned[i]) = k /\ WireName(wire[i]) # "none"

(***************************************************************************)
(* Further properties of TaskUpdater under any caller (Spec).              *)
(***************************************************************************)
\* current_state is the member whose value the last statusUpdate event of
\* the channel history carries, PENDING when there is none
CurrentStateMatches ==
    LET states == StatesOf(enqueued)
    IN  /\ updater.current_state \in TaskStateMembers
        /\ TaskState[updater.current_state]
               = (IF states = <<>> THEN TaskState.PENDING ELSE Last(states))

\* C29: a freshly constructed updater is PENDING and has enqueued nothing,
\* and every successful operation keeps current_state equal to the state of
\* the most recent statusUpdate event enqueued (PENDING if there is none).
C29_CurrentStateIsLastStatus ==
    /\ [](calls = <<>> =>
            (updater.current_state = "PENDING" /\ enqueued = <<>>
             /\ CurrentStateMatches))
    /\ [][(CurrentStateMatches /\ ncalls' = ncalls + 1 /\ call'.ret = "ok")
            => CurrentStateMatches']_vars

C29_Witness ==
    /\ Len(calls) = 4
    /\ calls[1] = [op |-> "update_status", state |-> "WORKING"]
    /\ calls[2] = [op |-> "update_status", state |-> "FAILED"]
    /\ calls[3].op = "add_artifact_update"
    /\ calls[4].op = "enqueue"
    /\ updater.current_state = "FAILED"
    /\ CurrentStateMatches

\* C30: every sentinel in the channel history has the completed or failed
\* statusUpdate event right before it, or one agent_parts event with role
\* "system" between a failed statusUpdate event and itself; nothing stands
\* between a completed statusUpdate event and the sentinel of complete().
C30_TerminalStatusAdjacentToEnd ==
    \A j \in 1..Len(enqueued) :
        IsSentinel(enqueued[j]) =>
            /\ j >= 2
            /\ \/ /\ IsStatusEvent(enqueued[j - 1])
                  /\ enqueued[j - 1].state \in {TaskState.COMPLETED, TaskState.FAILED}
               \/ /\ j >= 3
                  /\ IsContentEvent(enqueued[j - 1])
                  /\ enqueued[j - 1].role = "system"
                  /\ IsFailedStatus(enqueued[j - 2])

C30_Witness ==
    /\ Len(calls) = 3
    /\ calls[1].op = "complete"
    /\ calls[2].op = "enqueue"
    /\ calls[3] = [op |-> "fail", error_message |-> PyStr("boom")]
    /\ Len(enqueued) = 6
    /\ IsSentinel(enqueued[2])
    /\ IsSentinel(enqueued[6])
    /\ IsContentEvent(enqueued[5])

(***************************************************************************)
(* SpecShared: the EventQueue shared by two coroutines of one event loop.  *)
(* One makes a terminal call, complete() or fail(msg), taken one put at a  *)
(* time; the other enqueues content events whenever the loop lets it run.  *)
(* A coroutine keeps the loop until an await really waits:                 *)
(* asyncio.Queue.put waits only while the queue is full.                   *)
(***************************************************************************)
\* self.queue = asyncio.Queue(): no maxsize given
maxsize == 0

\* an enqueue that gives the loop to another coroutine before every put
put_suspends_always(q) == TRUE

\* await self.queue.put(event) waits before it puts iff the queue is full,
\* and a queue of maxsize <= 0 is never full
put_suspends(q) == maxsize > 0 /\ Len(q) >= maxsize

TerminalCalls ==
    {[op |-> "complete"]}
        \cup {[op |-> "fail", error_message |-> m] : m \in ErrorMessages}

TerminalOutcome(u, c) ==
    IF c.op = "complete" THEN complete(u) ELSE fail(u, c.error_message)

\* where the coroutine stands with the puts of its call still to make
PutPosition(q, puts) ==
    IF puts = <<>> THEN "returned"
    ELSE IF put_suspends(q) THEN "waiting"
    ELSE "running"

\* the coroutine enters complete() or fail(msg) and reaches its first put
TerminalCall ==
    /\ exec.mode = "none"
    /\ \E c \in TerminalCalls :
          LET r == TerminalOutcome(updater, c)
          IN  /\ exec' = [mode |-> PutPosition(queue, r.puts), puts |-> r.puts]
              /\ updater' = r.updater
              /\ call' = [op |-> c.op, ret |-> r.ret]
              /\ calls' = Append(calls, c)
    /\ UNCHANGED <<queue, enqueued, returned, ncalls, bridge, wire, setup>>

\* the next put of the call; the coroutine goes on to the put after it
\* without a pause unless that put has to wait
TerminalPut ==
    /\ exec.mode \in {"running", "waiting"}
    /\ queue' = enqueue(queue, Head(exec.puts))
    /\ enqueued' = Append(enqueued, Head(exec.puts))
    /\ exec' = [mode |-> PutPosition(queue', Tail(exec.puts)), puts |-> Tail(exec.puts)]
    /\ UNCHANGED <<returned, updater, call, calls, ncalls, bridge, wire, setup>>

\* the other coroutine runs only while the first one does not hold the loop
OtherEnqueue ==
    /\ exec.mode # "running"
    /\ Enqueue

NextShared ==
    \/ TerminalCall
    \/ TerminalPut
    \/ OtherEnqueue

SpecShared == Init /\ [][NextShared]_vars

\* an event of the other coroutine
IsOtherEvent(e) == IsContentEvent(e) /\ e.role = "assistant"

\* C31: complete() and fail() enqueue their terminal group atomically: no
\* event that another coroutine enqueues on the same EventQueue lands
\* between the terminal statusUpdate event and the sentinel.
C31_TerminalGroupAtomic ==
    /\ \A i \in 1..Len(enqueued) : \A j \in 1..Len(enqueued) :
          (i < j /\ IsTerminalStatus(enqueued[i]) /\ IsSentinel(enqueued[j]))
              => \A k \in (i + 1)..(j - 1) : ~IsOtherEvent(enqueued[k])
    /\ exec.mode \in {"running", "waiting"}
          => \A k \in 1..Len(enqueued) :
                IsTerminalStatus(enqueued[k])
                    => \A n \in (k + 1)..Len(enqueued) : ~IsOtherEvent(enqueued[n])

\* the other coroutine enqueued before and after a fail("boom") group
C31_Witness ==
    /\ exec.mode = "returned"
    /\ Last(calls).op = "enqueue"
    /\ Len(enqueued) = 5
    /\ IsOtherEvent(enqueued[1])
    /\ IsFailedStatus(enqueued[2])
    /\ IsContentEvent(enqueued[3]) /\ enqueued[3].role = "system"
    /\ IsSentinel(enqueued[4])
    /\ IsOtherEvent(enqueued[5])

(***************************************************************************)
(* Properties of event_generator when execute raises (SpecServer).         *)
(***************************************************************************)
\* C32: when AgentExecutor.execute raises, event_generator yields the end
\* frame before the exception reaches the generator's caller: the exception
\* leaves the generator only at its final await of the execution task, after
\* the loop has ended, and by then the end frame is the last frame yielded.
C32_EndBeforeException ==
    /\ [](bridge = "raised" => (wire # <<>> /\ IsEndFrame(Last(wire))))
    /\ []((exec.mode = "raised" /\ bridge = "get") => \A i \in 1..Len(wire) : ~IsEndFrame(wire[i]))
    /\ [][(bridge' = "raised" /\ bridge # "raised")
            => /\ bridge = "await"
               /\ exec.mode = "raised"
               /\ IsEndFrame(Last(wire))
               /\ wire' = wire]_vars

C32_Witness ==
    /\ bridge = "raised"
    /\ exec.mode = "raised"
    /\ exec.exc = PyStr("boom")
    /\ exec.pc = 5
    /\ Len(wire) = 8
    /\ IsEndFrame(wire[8])
    /\ \A i \in 1..7 : ~IsEndFrame(wire[i])

(***************************************************************************)
(* What the TaskUpdater operations leave alone (Spec).                     *)
(***************************************************************************)
\* the call made by the step is one of the TaskUpdater's own operations
IsUpdaterCall(c) ==
    c.op \in {"update_status", "add_artifact_update", "complete", "fail"}

\* C33: add_artifact_update and a direct enqueue of a content event leave
\* current_state as it was; no operation changes the updater's task_id or
\* context_id; and every event a TaskUpdater operation enqueues (status,
\* artifact, error content) carries the updater's task_id and context_id.
C33_FrameOfTaskUpdater ==
    /\ [][(ncalls' = ncalls + 1 /\ call'.op \in {"add_artifact_update", "enqueue"})
            => updater'.current_state = updater.current_state]_vars
    /\ [][/\ updater'.task_id = updater.task_id
          /\ updater'.context_id = updater.context_id]_vars
    /\ [][(ncalls' = ncalls + 1 /\ IsUpdaterCall(Last(calls')))
            => \A i \in (Len(enqueued) + 1)..Len(enqueued') :
                  ~IsSentinel(enqueued'[i])
                      => /\ enqueued'[i].task_id = updater.task_id
                         /\ enqueued'[i].context_id = updater.context_id]_vars

\* an artifact added after a failure with an error message: the state stays
\* FAILED and the status, the error content and the artifact carry the ids
C33_Witness ==
    /\ Len(calls) = 3
    /\ calls[1] = [op |-> "fail", error_message |-> PyStr("boom")]
    /\ calls[2].op = "add_artifact_update"
    /\ calls[3].op = "enqueue"
    /\ updater = [task_id |-> TaskId, context_id |-> ContextId, current_state |-> "FAILED"]
    /\ Len(enqueued) = 5
    /\ IsArtifactEvent(enqueued[4])
    /\ \A i \in {1, 2, 4} : enqueued[i].task_id = TaskId /\ enqueued[i].context_id = ContextId

(***************************************************************************)
(* SpecFail: fail as any caller calls it (error_message None, "" or a      *)
(* text) and as the except clause of AgentExecutor.execute calls it (with  *)
(* str(e) of the exception caught).                                        *)
(***************************************************************************)
InitFail == Init \/ InitServer

\* a caller's updater, as opposed to the one of an executor under a bridge
InCaller == bridge = "none"

NextFail ==
    \/ (InCaller /\ UpdateStatus)
    \/ (InCaller /\ AddArtifactUpdate)
    \/ (InCaller /\ Complete)
    \/ (InCaller /\ Fail)
    \/ (InCaller /\ Enqueue)
    \/ (~InCaller /\ ExecuteStep)
    \/ (~InCaller /\ ExecuteRaise)
    \/ (~InCaller /\ ExecuteExcept)
    \/ (~InCaller /\ ExecuteCancel)
    \/ (~InCaller /\ GeneratorTurn)
    \/ (~InCaller /\ GeneratorAwait)

SpecFail == InitFail /\ [][NextFail]_vars

\* C34: fail of a2a_utils enqueues exactly two items, the failed
\* statusUpdate event and the sentinel, when error_message is None or "",
\* and exactly three when it is non-empty: the third is an agent_parts event
\* with role "system" between the two.  So when a step of
\* AgentExecutor.execute raises an exception whose str() is empty, the
\* except clause enqueues a failure group with no error content.
C34_FailItemCount ==
    /\ [][(calls' # calls /\ call'.op = "fail")
            => LET m == Last(calls').error_message
                   added == Added(enqueued, enqueued')
               IN  /\ enqueued' = enqueued \o added
                   /\ Len(added) = IF Truthy(m) THEN 3 ELSE 2
                   /\ IsFailedStatus(added[1])
                   /\ IsSentinel(added[Len(added)])
                   /\ Truthy(m) => /\ IsContentEvent(added[2])
                                   /\ added[2].role = "system"]_vars
    /\ [][(exec.mode = "except" /\ exec'.mode = "raised" /\ exec.exc = PyStr(""))
            => /\ Len(Added(enqueued, enqueued')) = 2
               /\ \A i \in (Len(enqueued) + 1)..Len(enqueued') :
                     ~IsContentEvent(enqueued'[i])]_vars
    /\ [](exec.mode = "raised" /\ exec.exc = PyStr("")
            => \A i \in (Len(exec.atRaise) + 1)..Len(enqueued) :
                  ~IsContentEvent(enqueued[i]))

\* a caller's fail(None), fail("") and fail("boom") in a row: 2 + 2 + 3 items
C34_Witness ==
    /\ bridge = "none"
    /\ Len(calls) = 3
    /\ calls[1] = [op |-> "fail", error_message |-> None]
    /\ calls[2] = [op |-> "fail", error_message |-> PyStr("")]
    /\ calls[3] = [op |-> "fail", error_message |-> PyStr("boom")]
    /\ Len(enqueued) = 7
    /\ IsSentinel(enqueued[2])
    /\ IsSentinel(enqueued[4])
    /\ IsContentEvent(enqueued[6])
    /\ enqueued[6].role = "system"

(***************************************************************************)
(* The order of a successful run of AgentExecutor.execute (SpecServer).    *)
(***************************************************************************)
IsCompletedStatus(e) == IsStatusEvent(e) /\ e.state = TaskState.COMPLETED

\* the positions of s that hold an event satisfying the given test
ContentPositions(s) == {i \in 1..Len(s) : IsContentEvent(s[i])}

ArtifactPositions(s) == {i \in 1..Len(s) : IsArtifactEvent(s[i])}

CompletedPositions(s) == {i \in 1..Len(s) : IsCompletedStatus(s[i])}

\* C35: when AgentExecutor.execute has returned, every agent_parts and
\* artifactUpdate event was enqueued before the statusUpdate(completed)
\* event, the artifactUpdate event for "summary" was enqueued after every
\* content chunk of the summary step, and the last two items enqueued are
\* statusUpdate(completed) and the sentinel.
C35_SuccessfulRunOrder ==
    exec.mode = "returned" =>
        LET n == Len(enqueued)
        IN  /\ n >= 2
            /\ IsSentinel(enqueued[n])
            /\ CompletedPositions(enqueued) = {n - 1}
            /\ \A i \in ContentPositions(enqueued) \cup ArtifactPositions(enqueued) :
                  i < n - 1
            /\ \E a \in 1..n :
                  /\ ArtifactPositions(enqueued) = {a}
                  /\ enqueued[a].artifact_id = "summary"
                  /\ \A i \in ContentPositions(enqueued) : i < a
                  /\ {enqueued[i].parts : i \in (a - 3)..(a - 1)}
                        = {<<TextPart("Final ")>>, <<TextPart("summary ")>>,
                           <<TextPart("complete ")>>}

C35_Witness ==
    /\ exec.mode = "returned"
    /\ bridge = "get"
    /\ Len(enqueued) = 13
    /\ IsArtifactEvent(enqueued[11])
    /\ IsCompletedStatus(enqueued[12])
    /\ IsSentinel(enqueued[13])
    /\ Cardinality(ContentPositions(enqueued)) = 7

(***************************************************************************)
(* The two TaskUpdater implementations side by side (SpecSetup).           *)
(***************************************************************************)
\* every fail call of cs was given a non-empty message
FailsHaveMessage(cs) ==
    \A i \in 1..Len(cs) : cs[i].op = "fail" => Truthy(cs[i].error_message)

\* C36: the TaskUpdater of a2a_utils.py and the one of event_queue_setup.py
\* are observationally equivalent: after the same sequence of update_status,
\* add_artifact_update, complete and fail calls, every fail with a non-empty
\* message, both have enqueued the same events (timestamps aside) and are in
\* the same current_state.
C36_SameEventsSameState ==
    FailsHaveMessage(calls) =>
        /\ setup.enqueued = enqueued
        /\ setup.updater.current_state = updater.current_state
        /\ setup.ret = call.ret

C36_Witness ==
    /\ Len(calls) = 4
    /\ calls[1] = [op |-> "update_status", state |-> "CANCELLED"]
    /\ calls[2].op = "add_artifact_update"
    /\ calls[3] = [op |-> "fail", error_message |-> PyStr("boom")]
    /\ calls[4].op = "complete"
    /\ Len(enqueued) = 7
    /\ setup.enqueued = enqueued
    /\ setup.updater.current_state = "COMPLETED"
    /\ updater.current_state = "COMPLETED"

(***************************************************************************)
(* SpecPoll: the poll loop that main of agent_executor.py and the other    *)
(* examples run once their producer has finished:                          *)
(*     while not event_queue.is_empty():                                   *)
(*         event = await event_queue.get()                                 *)
(*         if event is None: break                                         *)
(* The producer is AgentExecutor.execute, awaited by main, or any caller   *)
(* of the TaskUpdater making up to MaxPollCalls calls.  The loop is the    *)
(* only consumer and the only coroutine left.                              *)
(***************************************************************************)
\* main has built the queue and the executor and awaits executor.execute
InitMain ==
    /\ queue = <<>>
    /\ enqueued = <<>>
    /\ returned = <<>>
    /\ updater = TaskUpdater(TaskId, ContextId)
    /\ call = [op |-> "init", ret |-> "ok"]
    /\ calls = <<>>
    /\ ncalls = 0
    /\ exec = [mode |-> "pending", pc |-> 0, exc |-> None, atRaise |-> <<>>]
    /\ bridge = "main"
    /\ wire = <<>>
    /\ setup = SetupIdle

InitPoll == Init \/ InitMain

\* a loop that goes on whatever the queue holds, as event_generator's does
poll_continues_always(q) == TRUE

\* the while condition
poll_continues(q) == ~is_empty(q)

\* if event is None: break
poll_breaks(event) == event = None

\* await executor.execute(...) is over: main goes on to the loop, or the
\* exception that execute re-raised leaves main
MainAwaited ==
    /\ bridge = "main"
    /\ ExecDone
    /\ bridge' = IF exec.mode = "returned" THEN "while" ELSE "raised"
    /\ UNCHANGED <<queue, enqueued, returned, updater, call, calls, ncalls, exec, wire, setup>>

\* the caller has made its last call
CallerFinished ==
    /\ bridge = "none"
    /\ bridge' = "while"
    /\ UNCHANGED <<queue, enqueued, returned, updater, call, calls, ncalls, exec, wire, setup>>

PollTest ==
    /\ bridge = "while"
    /\ bridge' = IF poll_continues(queue) THEN "poll" ELSE "exited"
    /\ UNCHANGED <<queue, enqueued, returned, updater, call, calls, ncalls, exec, wire, setup>>

\* await event_queue.get(): with nothing in the queue the loop is suspended,
\* and nobody is left to put
PollGet ==
    /\ bridge = "poll"
    /\ IF Len(queue) = 0
       THEN /\ bridge' = "suspended"
            /\ UNCHANGED <<queue, returned>>
       ELSE LET g == get(queue)
            IN  /\ queue' = g.queue
                /\ returned' = Append(returned, g.event)
                /\ bridge' = IF poll_breaks(g.event) THEN "exited" ELSE "while"
    /\ UNCHANGED <<enqueued, updater, call, calls, ncalls, exec, wire, setup>>

InPollCaller == bridge = "none" /\ ncalls < MaxPollCalls

NextPoll ==
    \/ (InPollCaller /\ UpdateStatus)
    \/ (InPollCaller /\ AddArtifactUpdate)
    \/ (InPollCaller /\ Complete)
    \/ (InPollCaller /\ Fail)
    \/ (InPollCaller /\ Enqueue)
    \/ CallerFinished
    \/ (bridge = "main" /\ ExecuteStep)
    \/ (bridge = "main" /\ ExecuteRaise)
    \/ (bridge = "main" /\ ExecuteExcept)
    \/ MainAwaited
    \/ PollTest
    \/ PollGet

SpecPoll == InitPoll /\ [][NextPoll]_vars

\* the loop is the only coroutine that is ready: the event loop runs it
FairSpecPoll ==
    /\ SpecPoll
    /\ WF_vars(PollTest)
    /\ WF_vars(PollGet)

\* s up to and including its first sentinel, all of s if it has none
RECURSIVE UpToSentinel(_)
UpToSentinel(s) ==
    IF s = <<>> THEN <<>>
    ELSE IF IsSentinel(Head(s)) THEN <<Head(s)>>
    ELSE <<Head(s)>> \o UpToSentinel(Tail(s))

InPollLoop == bridge \in {"while", "poll", "suspended", "exited"}

\* C37: once the producer has finished, the poll loop, as the only
\* consumer, never suspends on get(), observes the enqueued events in
\* order, every one up to and including the sentinel, and terminates.
C37_PollLoopDrainsAndEnds ==
    /\ [](bridge # "suspended")
    /\ [](InPollLoop => /\ Len(returned) <= Len(UpToSentinel(enqueued))
                        /\ returned = SubSeq(enqueued, 1, Len(returned))
                        /\ enqueued = returned \o queue)
    /\ [](bridge = "exited" => returned = UpToSentinel(enqueued))
    /\ (bridge = "while") ~> (bridge = "exited")

\* main after a run of execute that returned: all 13 items read, the
\* sentinel last
C37_Witness ==
    /\ exec.mode = "returned"
    /\ bridge = "exited"
    /\ Len(returned) = 13
    /\ returned = enqueued
    /\ IsSentinel(returned[13])
    /\ queue = <<>>

====
